---------------------------- MODULE Spec2Model ----------------------------
(***************************************************************************)
(* AstroHab layout editor (src/Astrohab/SRC/App.jsx): the App component's  *)
(* state and its event handlers as a state machine.                        *)
(*                                                                         *)
(* One action is one browser event: the handler runs to completion and     *)
(* React re-renders before the next event is dispatched, so every handler  *)
(* reads the committed state.  The FileReader callback of importLayout is  *)
(* an event of its own, dispatched at some later time.  Rendering (the 3D  *)
(* scene) is left to the libraries; of the render only what decides which  *)
(* handlers can be called is kept: the edit panel is shown for a selected  *)
(* module, the click handler sits on the modules not selected, the gizmo   *)
(* on the selected ones.  DraggableCube (Dragglecube.jsx) is mounted       *)
(* nowhere and has no part in the state.                                   *)
(*                                                                         *)
(* JavaScript values.  A number is a record [k |-> "number", v |-> n]; the *)
(* values Infinity, null and undefined are records of another kind, so a   *)
(* field that usually holds a number can hold them too.  A natural of 10^8 *)
(* or more, which only the crew input produces, is held by its limbs, and  *)
(* the products of the estimator are doubles, computed bit for bit.        *)
(* Strings are TLA+ strings.  A text the user types or is shown (toFixed)  *)
(* is a sequence of one-character strings, so that its digits can be read. *)
(***************************************************************************)
EXTENDS Integers, Sequences, FiniteSets, TLC

VARIABLES
    modules,       \* useState([])  : the registry, a sequence of module records
    selected,      \* useState(null): the selected id, or null
    crew,          \* useState(4)   : crew count
    controlsMode,  \* useState("translate")
    localStorage,  \* the slot "astrohab_layout": null when absent, else a text
    download,      \* the file astrohab_layout.json last produced by Export
    readers,       \* FileReaders whose onload callback has not run yet
    now,           \* the value Date.now() returns
    alerts,        \* the alert() calls of the most recent handler, in order
    events,        \* how many handlers have run
    savedModules   \* the registry as it was at the most recent Save

vars == <<modules, selected, crew, controlsMode, localStorage, download,
          readers, now, alerts, events, savedModules>>

----------------------------------------------------------------------------
(* Bounds of the model *)

\* Add is disabled once the registry holds this many records.
MaxModules == 2

\* Date.now() runs from 1 to MaxNow (milliseconds since the page was opened).
MaxNow == 2

\* FileReaders that may be pending at once.
MaxReaders == 1

\* Crew counts typed into the crew input run from 0 to MaxCrew.
MaxCrew == 12

\* A run dispatches at most MaxEvents events to the handlers.
MaxEvents == 5

----------------------------------------------------------------------------
(* JavaScript values *)

Num(n) == [k |-> "number", v |-> n]

Infinity == [k |-> "Infinity", v |-> 0]

null == [k |-> "null", v |-> 0]

undefined == [k |-> "undefined", v |-> 0]

\* Number.isFinite
IsFinite(x) == x.k = "number"

\* ToBoolean(x) = false, for the values a selection can hold: `!selected`
Falsy(x) == x = null \/ x = undefined \/ x = Num(0)

\* The ten digit characters, and the value of one.
DigitChars == <<"0", "1", "2", "3", "4", "5", "6", "7", "8", "9">>

DigitOf(c) == (CHOOSE i \in DOMAIN DigitChars : DigitChars[i] = c) - 1

RECURSIVE Decimal(_)
\* The decimal digits of a natural number, as characters.
Decimal(n) ==
    IF n < 10 THEN <<DigitChars[n + 1]>>
    ELSE Append(Decimal(n \div 10), DigitChars[(n % 10) + 1])

----------------------------------------------------------------------------
(* Naturals of any size.                                                   *)
(*                                                                         *)
(* The crew input takes any text of digits and a double holds integers far *)
(* beyond 2^31, so the arithmetic of the estimator is done on naturals     *)
(* written as sequences of limbs, each a group of four decimal digits,     *)
(* most significant first and without leading zero limbs; zero is <<0>>.   *)
(* 45237049828508 is <<45, 2370, 4982, 8508>>.                             *)

\* The value of a limb's position.
Base == 10000

Front(a) == SubSeq(a, 1, Len(a) - 1)

Last(a) == a[Len(a)]

RECURSIVE Strip(_)
\* Without leading zero limbs.
Strip(a) ==
    IF a = <<>> THEN <<0>>
    ELSE IF Len(a) > 1 /\ a[1] = 0 THEN Strip(Tail(a))
    ELSE a

RECURSIVE Limbs(_)
\* The limbs of a TLA+ natural.
Limbs(n) == IF n < Base THEN <<n>> ELSE Append(Limbs(n \div Base), n % Base)

\* The TLA+ natural that at most two limbs denote.
NatValue(a) == IF Len(a) = 1 THEN a[1] ELSE a[1] * Base + a[2]

\* a < b
Less(a, b) ==
    \/ Len(a) < Len(b)
    \/ /\ Len(a) = Len(b)
       /\ \E i \in DOMAIN a :
             /\ a[i] < b[i]
             /\ \A h \in 1 .. (i - 1) : a[h] = b[h]

RECURSIVE PlusCarry(_, _, _)
PlusCarry(a, b, carry) ==
    IF carry = 0 /\ a = <<>> /\ b = <<>> THEN <<>>
    ELSE LET x == IF a = <<>> THEN 0 ELSE Last(a)
             y == IF b = <<>> THEN 0 ELSE Last(b)
             t == x + y + carry
         IN  Append(PlusCarry(IF a = <<>> THEN a ELSE Front(a),
                              IF b = <<>> THEN b ELSE Front(b),
                              t \div Base),
                    t % Base)

\* a + b
Plus(a, b) == Strip(PlusCarry(a, b, 0))

RECURSIVE TimesCarry(_, _, _)
TimesCarry(a, k, carry) ==
    IF carry = 0 /\ a = <<>> THEN <<>>
    ELSE LET x == IF a = <<>> THEN 0 ELSE Last(a)
             t == x * k + carry
         IN  Append(TimesCarry(IF a = <<>> THEN a ELSE Front(a), k,
                               t \div Base),
                    t % Base)

\* a * k, for a TLA+ natural k up to 2^16
Times(a, k) == Strip(TimesCarry(a, k, 0))

RECURSIVE Product(_, _)
\* a * b
Product(a, b) ==
    IF b = <<>> THEN <<0>>
    ELSE Plus(Times(Product(a, Front(b)), Base), Times(a, Last(b)))

RECURSIVE QuotientFrom(_, _, _)
QuotientFrom(a, k, r) ==
    IF a = <<>> THEN <<>>
    ELSE LET t == Base * r + Head(a)
         IN  <<t \div k>> \o QuotientFrom(Tail(a), k, t % k)

\* floor(a / k), for a TLA+ natural k up to 2^16
Quotient(a, k) == Strip(QuotientFrom(a, k, 0))

RECURSIVE RemainderFrom(_, _, _)
RemainderFrom(a, k, r) ==
    IF a = <<>> THEN r
    ELSE RemainderFrom(Tail(a), k, (Base * r + Head(a)) % k)

\* a mod k, a TLA+ natural
Remainder(a, k) == RemainderFrom(a, k, 0)

Odd(a) == Last(a) % 2 = 1

RECURSIVE TwoTo(_)
\* 2^s as a TLA+ natural, s up to 16
TwoTo(s) == IF s = 0 THEN 1 ELSE 2 * TwoTo(s - 1)

RECURSIVE ShiftLeft(_, _)
\* a * 2^s
ShiftLeft(a, s) ==
    IF s > 16 THEN ShiftLeft(Times(a, TwoTo(16)), s - 16)
    ELSE Times(a, TwoTo(s))

RECURSIVE ShiftRight(_, _)
\* floor(a / 2^s)
ShiftRight(a, s) ==
    IF s > 16 THEN ShiftRight(Quotient(a, TwoTo(16)), s - 16)
    ELSE Quotient(a, TwoTo(s))

\* The decimal digits of a, without leading zeros.
Digits(a) ==
    LET all == [i \in 1 .. 4 * Len(a) |->
                   LET limb == a[(i + 3) \div 4]
                   IN  CASE i % 4 = 1 -> limb \div 1000
                         [] i % 4 = 2 -> (limb \div 100) % 10
                         [] i % 4 = 3 -> (limb \div 10) % 10
                         [] i % 4 = 0 -> limb % 10]
        zeros == IF a[1] >= 1000 THEN 0
                 ELSE IF a[1] >= 100 THEN 1
                 ELSE IF a[1] >= 10 THEN 2
                 ELSE 3
    IN  SubSeq(all, zeros + 1, Len(all))

\* The natural that a sequence of decimal digits denotes; none denote 0.
FromDigits(ds) ==
    LET d == [i \in 1 .. ((4 - (Len(ds) % 4)) % 4) |-> 0] \o ds
    IN  Strip([j \in 1 .. (Len(d) \div 4) |->
                  1000 * d[4 * j - 3] + 100 * d[4 * j - 2]
                  + 10 * d[4 * j - 1] + d[4 * j]])

\* The characters of decimal digits, and back.
Chars(ds) == [i \in DOMAIN ds |-> DigitChars[ds[i] + 1]]

DigitsOfText(text) == [i \in DOMAIN text |-> DigitOf(text[i])]

----------------------------------------------------------------------------
(* Doubles.                                                                *)
(*                                                                         *)
(* A JavaScript number is an IEEE 754 double: 53 significant bits, every   *)
(* result rounded to the nearest double, to the one with the even          *)
(* significand of two that are equally near.                               *)

\* The significant bits of a double.
Precision == 53

\* The least natural that takes more than Precision bits.
TwoToPrecision == ShiftLeft(<<1>>, Precision)

\* The natural nearest to p among those of at most Precision significant
\* bits, q * 2^s; (2q + 1) * 2^s is twice the midpoint of q * 2^s and the
\* next one.  A limb takes less than 14 bits.
RoundToPrecision(p) ==
    LET s == CHOOSE s \in 0 .. 14 * Len(p) :
                /\ Less(p, ShiftLeft(TwoToPrecision, s))
                /\ s = 0 \/ ~Less(p, ShiftLeft(TwoToPrecision, s - 1))
        q == ShiftRight(p, s)
        middle == ShiftLeft(Plus(Times(q, 2), <<1>>), s)
        twice == Times(p, 2)
        up == Less(middle, twice) \/ (middle = twice /\ Odd(q))
    IN  ShiftLeft(IF up THEN Plus(q, <<1>>) ELSE q, s)

\* A natural held in a number: below 10^8 it is Num(n); a larger one is
\* held by its limbs.
BigNum(a) == [k |-> "number", limbs |-> a]

NumberOf(a) == IF Len(a) <= 2 THEN Num(NatValue(a)) ELSE BigNum(a)

\* The natural that a number holds.
Natural(x) == IF "v" \in DOMAIN x THEN Limbs(x.v) ELSE x.limbs

\* Number(e.target.value) of a number input holding a text of digits: the
\* double nearest to the integer written (Number("") is 0).
Number(text) == NumberOf(RoundToPrecision(FromDigits(DigitsOfText(text))))

\* The value of a decimal literal with two decimals, given in hundredths:
\* the double nearest to hundredths / 100.  A double that is no integer is
\* [n, e], the value n / 2^e, n a natural of Precision significant bits.
Literal(hundredths) ==
    LET e == CHOOSE e \in 0 .. 2 * Precision :
                /\ ~Less(ShiftLeft(Limbs(hundredths), e),
                         Times(TwoToPrecision, 50))
                /\ Less(ShiftLeft(Limbs(hundredths), e),
                        Times(TwoToPrecision, 100))
        scaled == ShiftLeft(Limbs(hundredths), e)
        q == Quotient(scaled, 100)
        r == Remainder(scaled, 100)
        up == r > 50 \/ (r = 50 /\ Odd(q))
    IN  [n |-> IF up THEN Plus(q, <<1>>) ELSE q, e |-> e]

\* x * y for a number x that holds a natural and a double y = [n, e]: the
\* exact product, rounded.
Multiply(x, y) ==
    [n |-> RoundToPrecision(Product(Natural(x), y.n)), e |-> y.e]

----------------------------------------------------------------------------
(* JSON texts.                                                             *)
(*                                                                         *)
(* A text is [space, json]: the indentation it was written with and its    *)
(* tree of tokens.  A number token keeps the literal's mantissa and        *)
(* exponent, an object token its members in the order they are written.    *)
(* A text that is not JSON has the single token "syntax error".            *)

JNumber(m, e) == [j |-> "number", mantissa |-> m, exponent |-> e]

JString(s) == [j |-> "string", s |-> s]

JNull == [j |-> "null"]

JArray(items) == [j |-> "array", items |-> items]

JObject(members) == [j |-> "object", members |-> members]

\* Number.MAX_VALUE is about 1.8e308: a literal with a larger exponent
\* decodes to Infinity.
MaxExponent == 308

RECURSIVE Pow10(_)
Pow10(e) == IF e = 0 THEN 1 ELSE 10 * Pow10(e - 1)

\* JSON.stringify of a number: a finite number is written as its literal,
\* Infinity (and NaN) as null.  null itself is written as null.
SerializeNumber(x) == IF IsFinite(x) THEN JNumber(x.v, 0) ELSE JNull

\* JSON.stringify of one module record: its own properties in creation
\* order (id, label, color, size, type, position).
SerializeModule(m) ==
    JObject(<< <<"id", SerializeNumber(m.id)>>,
               <<"label", JString(m.label)>>,
               <<"color", JString(m.color)>>,
               <<"size", SerializeNumber(m.size)>>,
               <<"type", JString(m.type)>>,
               <<"position", JArray([i \in DOMAIN m.position |->
                                        SerializeNumber(m.position[i])])>> >>)

\* JSON.stringify(value, null, space) of the registry.
JSON_stringify(value, space) ==
    [space |-> space,
     json  |-> JArray([i \in DOMAIN value |-> SerializeModule(value[i])])]

\* JSON.parse(text) throws a SyntaxError.
Throws(text) == text.json.j = "syntax error"

\* The value of the last member of an object token that has the key.
Lookup(members, key) ==
    LET at == {i \in DOMAIN members : members[i][1] = key}
        last == CHOOSE i \in at : \A h \in at : h <= i
    IN  members[last][2]

RECURSIVE ParseValue(_)
\* The JavaScript value a token tree decodes to.
ParseValue(t) ==
    CASE t.j = "number" ->
            IF t.mantissa # 0 /\ t.exponent > MaxExponent THEN Infinity
            ELSE Num(t.mantissa * Pow10(t.exponent))
      [] t.j = "string" -> t.s
      [] t.j = "null"   -> null
      [] t.j = "array"  -> [i \in DOMAIN t.items |-> ParseValue(t.items[i])]
      [] t.j = "object" ->
            [key \in {t.members[i][1] : i \in DOMAIN t.members} |->
                ParseValue(Lookup(t.members, key))]

\* JSON.parse(text), for a text that decodes; indentation is skipped.
JSON_parse(text) == ParseValue(text.json)

----------------------------------------------------------------------------
(* Files the user can pick in the file dialog, besides the exported one *)

ModuleObject(id, label, color, size, type) ==
    JObject(<< <<"id", id>>, <<"label", JString(label)>>,
               <<"color", JString(color)>>, <<"size", size>>,
               <<"type", JString(type)>>,
               <<"position", JArray(<<JNumber(0, 0), JNumber(0, 0),
                                      JNumber(0, 0)>>)>> >>)

UserFile(json) ==
    [text |-> [space |-> 2, json |-> json], exported |-> FALSE, origin |-> <<>>]

\* A file that is not JSON.
NotJson == UserFile([j |-> "syntax error"])

\* A hand-written layout that numbers its modules from 0.
ZeroIdFile ==
    UserFile(JArray(<<ModuleObject(JNumber(0, 0), "Core", "#00aaff",
                                   JNumber(2, 0), "cube")>>))

\* A layout with a shape the editor does not know.
PyramidFile ==
    UserFile(JArray(<<ModuleObject(JNumber(1, 0), "Roof", "#ff4444",
                                   JNumber(2, 0), "pyramid")>>))

\* A layout whose size literal, 1e999, exceeds the range of a double.
HugeFile ==
    UserFile(JArray(<<ModuleObject(JNumber(1, 0), "Hull", "#00aaff",
                                   JNumber(1, 999), "cube")>>))

UserFiles == {NotJson, ZeroIdFile, PyramidFile, HugeFile}

----------------------------------------------------------------------------
(* addModule's tables *)

\* const types = [...]
types == <<"cube", "sphere", "cylinder", "cone", "solar", "tunnel">>

\* const colors = {...}
colors == [cube |-> "#00aaff", sphere |-> "#ffcc00", cylinder |-> "#00ffaa",
           cone |-> "#ff4444", solar |-> "#2233ff", tunnel |-> "#aaaaaa"]

\* type.charAt(0).toUpperCase() + type.slice(1), for the six types
Capitalize(type) ==
    CASE type = "cube"     -> "Cube"
      [] type = "sphere"   -> "Sphere"
      [] type = "cylinder" -> "Cylinder"
      [] type = "cone"     -> "Cone"
      [] type = "solar"    -> "Solar"
      [] type = "tunnel"   -> "Tunnel"

\* A draw of Math.random() is given in sixths: the draw k stands for k/6,
\* so that Math.floor(Math.random() * types.length) is k and
\* Math.random() * 6 - 3 is k - 3.  The type is drawn at 0 and 1/2, a
\* coordinate at 1/2.
RandomType == {0, 3}

RandomCoordinate == {3}

----------------------------------------------------------------------------
(* What the render computes from the state *)

\* modules.find((m) => m.id === selected)
selectedModule ==
    LET hits == {i \in DOMAIN modules : modules[i].id = selected}
    IN  IF hits = {} THEN undefined
        ELSE modules[CHOOSE i \in hits : \A h \in hits : i <= h]

\* {selectedModule && (<div className="edit-panel"> ...)}
EditPanelShown == selectedModule # undefined

----------------------------------------------------------------------------
(* Number.prototype.toFixed and Number::toString *)

\* 10^21: from here on toFixed returns what String(x) returns.
TenTo21 == FromDigits(<<1>> \o [i \in 1 .. 21 |-> 0])

\* The natural a, of the decimal digits ds, with the digits after the k-th
\* set to 0, and the next natural of that form.
Below(ds, k) == FromDigits(SubSeq(ds, 1, k) \o [i \in 1 .. (Len(ds) - k) |-> 0])

Above(ds, k) ==
    Plus(Below(ds, k), FromDigits(<<1>> \o [i \in 1 .. (Len(ds) - k) |-> 0]))

\* Number() reads a decimal of k significant digits back as a.
ReadsBack(a, k) ==
    \/ RoundToPrecision(Below(Digits(a), k)) = a
    \/ RoundToPrecision(Above(Digits(a), k)) = a

\* Number::toString's choice of digits for the natural a that a double
\* holds: of the decimals that Number() reads back as a, one of the fewest
\* significant digits, and of these the nearest to a (the even one of two
\* equally near).
Shortest(a) ==
    LET ds == Digits(a)
        k == CHOOSE k \in DOMAIN ds :
                ReadsBack(a, k) /\ (k = 1 \/ ~ReadsBack(a, k - 1))
        below == Below(ds, k)
        above == Above(ds, k)
        okBelow == RoundToPrecision(below) = a
        okAbove == RoundToPrecision(above) = a
        twice == Times(a, 2)
        sum == Plus(below, above)
    IN  IF okBelow /\ okAbove
        THEN IF Less(twice, sum) THEN below
             ELSE IF Less(sum, twice) THEN above
             ELSE IF ds[k] % 2 = 0 THEN below ELSE above
        ELSE IF okBelow THEN below
        ELSE above

\* String(x) of a double x = [n, e] that is 10^21 or more (and so an
\* integer): its digits in exponent notation, d.ddde+nn.
NumberToString(x) ==
    LET ds == Digits(Shortest(ShiftRight(x.n, x.e)))
        k == CHOOSE k \in DOMAIN ds :
                ds[k] # 0 /\ \A h \in (k + 1) .. Len(ds) : ds[h] = 0
    IN  Chars(<<ds[1]>>)
        \o (IF k > 1 THEN <<".">> \o Chars(SubSeq(ds, 2, k)) ELSE <<>>)
        \o <<"e", "+">> \o Decimal(Len(ds) - 1)

\* The integer n for which n / 100 is nearest to x = [n, e], the larger of
\* two equally near: floor(100 x + 1/2).
NearestHundredths(x) ==
    ShiftRight(Plus(Times(x.n, 200), ShiftLeft(<<1>>, x.e)), x.e + 1)

\* A number of hundredths as text: the integer part, a point, two decimals.
PointTwo(n) ==
    LET ds == Digits(n)
        d == [i \in 1 .. (3 - Len(ds)) |-> 0] \o ds
    IN  Chars(SubSeq(d, 1, Len(d) - 2)) \o <<".">>
        \o Chars(SubSeq(d, Len(d) - 1, Len(d)))

\* PointTwo without the leading zero of the decimals: 10.0 for 10.00.
PointTwoUnpadded(n) ==
    LET ds == Digits(n)
        d == [i \in 1 .. (3 - Len(ds)) |-> 0] \o ds
    IN  Chars(SubSeq(d, 1, Len(d) - 2)) \o <<".">>
        \o Chars(Digits(FromDigits(SubSeq(d, Len(d) - 1, Len(d)))))

\* toFixed2 with the decimals unpadded.
toFixedUnpadded(x) ==
    IF ~Less(x.n, ShiftLeft(TenTo21, x.e)) THEN NumberToString(x)
    ELSE PointTwoUnpadded(NearestHundredths(x))

\* x.toFixed(2) of a double x = [n, e] that is not negative.
toFixed2(x) ==
    IF ~Less(x.n, ShiftLeft(TenTo21, x.e)) THEN NumberToString(x)
    ELSE PointTwo(NearestHundredths(x))

\* The literals 0.84, 2.5 and 0.62 of the daily rates per crew member.
OxygenRate == Literal(84)

WaterRate == Literal(250)

FoodRate == Literal(62)

\* const dailyOxygen = (crew * 0.84).toFixed(2), and so on.
dailyOxygen == toFixed2(Multiply(crew, OxygenRate))

dailyWater == toFixed2(Multiply(crew, WaterRate))

dailyFood == toFixed2(Multiply(crew, FoodRate))

----------------------------------------------------------------------------
(* The state after the component is mounted on a first visit *)

Init ==
    /\ modules = <<>>
    /\ selected = null
    /\ crew = Num(4)
    /\ controlsMode = "translate"
    /\ localStorage = null
    /\ download = null
    /\ readers = <<>>
    /\ now = 1
    /\ alerts = <<>>
    /\ events = 0
    /\ savedModules = <<>>

----------------------------------------------------------------------------
(* The environment *)

\* A millisecond passes.
Tick ==
    /\ now < MaxNow
    /\ now' = now + 1
    /\ UNCHANGED <<modules, selected, crew, controlsMode, localStorage,
                   download, readers, alerts, events, savedModules>>

----------------------------------------------------------------------------
(* The handlers *)

\* The browser dispatches one more event to a handler.
Dispatched == events < MaxEvents /\ events' = events + 1

\* addModule, with the three Math.random() draws rt, rx, rz
addModule(rt, rx, rz) ==
    /\ Len(modules) < MaxModules
    /\ LET type == types[rt + 1]
           newModule == [id       |-> Num(now),
                         label    |-> Capitalize(type),
                         color    |-> colors[type],
                         size     |-> Num(2),
                         type     |-> type,
                         position |-> <<Num(rx - 3), Num(0), Num(rz - 3)>>]
       IN  /\ modules' = Append(modules, newModule)
           /\ selected' = newModule.id
    /\ alerts' = <<>>
    /\ Dispatched
    /\ UNCHANGED <<crew, controlsMode, localStorage, download, readers, now,
                   savedModules>>

\* prev.filter((m) => m.id !== selected)
FilterOut(prev, id) == SelectSeq(prev, LAMBDA m : m.id # id)

\* deleteModule
deleteModule ==
    /\ IF Falsy(selected)
       THEN /\ alerts' = <<"Select a module to delete!">>
            /\ UNCHANGED <<modules, selected>>
       ELSE /\ modules' = FilterOut(modules, selected)
            /\ selected' = null
            /\ alerts' = <<>>
    /\ Dispatched
    /\ UNCHANGED <<crew, controlsMode, localStorage, download, readers, now,
                   savedModules>>

\* prev.map((m) => (m.id === selected ? { ...m, [field]: value } : m))
MapField(prev, id, field, value) ==
    [i \in DOMAIN prev |->
        IF prev[i].id = id THEN [prev[i] EXCEPT ![field] = value] ELSE prev[i]]

\* updateSelected(field, value), called by an input of the edit panel
updateSelected(field, value) ==
    /\ EditPanelShown
    /\ IF Falsy(selected)
       THEN UNCHANGED modules
       ELSE modules' = MapField(modules, selected, field, value)
    /\ alerts' = <<>>
    /\ Dispatched
    /\ UNCHANGED <<selected, crew, controlsMode, localStorage, download,
                   readers, now, savedModules>>

\* TransformControls onMouseUp of the selected module m = modules[i]; pos is
\* the position the gizmo reports
onMouseUp(i, pos) ==
    /\ i \in DOMAIN modules
    /\ selected = modules[i].id
    /\ modules' = MapField(modules, modules[i].id, "position", pos)
    /\ alerts' = <<>>
    /\ Dispatched
    /\ UNCHANGED <<selected, crew, controlsMode, localStorage, download,
                   readers, now, savedModules>>

\* <mesh onClick={() => setSelected(m.id)}> of a module m = modules[i] that
\* is not rendered as selected
onClick(i) ==
    /\ i \in DOMAIN modules
    /\ selected # modules[i].id
    /\ selected' = modules[i].id
    /\ alerts' = <<>>
    /\ Dispatched
    /\ UNCHANGED <<modules, crew, controlsMode, localStorage, download,
                   readers, now, savedModules>>

\* saveLayout
saveLayout ==
    /\ localStorage' = JSON_stringify(modules, 0)
    /\ alerts' = <<"Layout saved!">>
    /\ Dispatched
    /\ savedModules' = modules
    /\ UNCHANGED <<modules, selected, crew, controlsMode, download, readers,
                   now>>

\* loadLayout
loadLayout ==
    /\ LET data == localStorage
       IN  IF data # null
           THEN /\ modules' = JSON_parse(data)
                /\ alerts' = <<"Layout loaded!">>
           ELSE /\ UNCHANGED modules
                /\ alerts' = <<>>
    /\ Dispatched
    /\ UNCHANGED <<selected, crew, controlsMode, localStorage, download,
                   readers, now, savedModules>>

\* exportLayout: the browser writes astrohab_layout.json
exportLayout ==
    /\ download' = [text     |-> JSON_stringify(modules, 2),
                    exported |-> TRUE,
                    origin   |-> modules]
    /\ alerts' = <<>>
    /\ Dispatched
    /\ UNCHANGED <<modules, selected, crew, controlsMode, localStorage,
                   readers, now, savedModules>>

\* The files the file dialog offers.
Files == UserFiles \cup (IF download = null THEN {} ELSE {download})

\* importLayout with the file the user picked: reader.readAsText(file)
importLayout(file) ==
    /\ Len(readers) < MaxReaders
    /\ readers' = Append(readers, file)
    /\ alerts' = <<>>
    /\ Dispatched
    /\ UNCHANGED <<modules, selected, crew, controlsMode, localStorage,
                   download, now, savedModules>>

\* importLayout when the dialog is dismissed: if (!file) return
importNothing ==
    /\ alerts' = <<>>
    /\ Dispatched
    /\ UNCHANGED <<modules, selected, crew, controlsMode, localStorage,
                   download, readers, now, savedModules>>

RemoveAt(s, i) == SubSeq(s, 1, i - 1) \o SubSeq(s, i + 1, Len(s))

\* onload with setModules moved ahead of the decoding: a text that does not
\* decode empties the registry.
onloadReplacingFirst(i) ==
    /\ i \in DOMAIN readers
    /\ LET result == readers[i].text
       IN  IF Throws(result)
           THEN /\ alerts' = <<"Invalid JSON file!">>
                /\ modules' = <<>>
           ELSE /\ modules' = JSON_parse(result)
                /\ alerts' = <<"Layout imported!">>
    /\ readers' = RemoveAt(readers, i)
    /\ Dispatched
    /\ UNCHANGED <<selected, crew, controlsMode, localStorage, download, now,
                   savedModules>>

\* reader.onload of the i-th pending reader
onload(i) ==
    /\ i \in DOMAIN readers
    /\ LET result == readers[i].text
       IN  IF Throws(result)
           THEN /\ alerts' = <<"Invalid JSON file!">>
                /\ UNCHANGED modules
           ELSE /\ modules' = JSON_parse(result)
                /\ alerts' = <<"Layout imported!">>
    /\ readers' = RemoveAt(readers, i)
    /\ Dispatched
    /\ UNCHANGED <<selected, crew, controlsMode, localStorage, download, now,
                   savedModules>>

\* onChange of the crew input: setCrew(Number(e.target.value))
setCrew(digits) ==
    /\ crew' = Number(digits)
    /\ alerts' = <<>>
    /\ Dispatched
    /\ UNCHANGED <<modules, selected, controlsMode, localStorage, download,
                   readers, now, savedModules>>

\* onChange of the transform mode select of the edit panel
setControlsMode(mode) ==
    /\ EditPanelShown
    /\ controlsMode' = mode
    /\ alerts' = <<>>
    /\ Dispatched
    /\ UNCHANGED <<modules, selected, crew, localStorage, download, readers,
                   now, savedModules>>

----------------------------------------------------------------------------
(* The inputs of the events *)

\* Crew counts of a generation ship: 45237049828507, whose oxygen is a
\* double halfway between two hundredths, and the next two;
\* 200000000000003; 9007199254740993, which is 2^53 + 1; and 10^21.
LargeCrews ==
    {<<45, 2370, 4982, 8507>>,
     <<45, 2370, 4982, 8508>>,
     <<45, 2370, 4982, 8509>>,
     <<200, 0, 0, 3>>,
     <<9007, 1992, 5474, 993>>,
     <<10, 0, 0, 0, 0, 0>>}

\* What the user types into the crew input: nothing, or a count.
CrewTexts ==
    {<<>>} \cup {Decimal(n) : n \in 0 .. MaxCrew}
           \cup {Chars(Digits(a)) : a \in LargeCrews}

\* What the user types into the size input.
SizeTexts == {<<>>, <<"3">>}

\* What the edit panel's inputs pass to updateSelected.
PanelEdits ==
    {<<"label", "Lab">>, <<"color", "#ffffff">>, <<"type", "solar">>}
    \cup {<<"size", Number(t)>> : t \in SizeTexts}

\* Where the transform gizmo leaves the module.
GizmoPositions == {<<Num(1), Num(0), Num(-1)>>}

\* The events of the layout: registry, selection and persistence.
Layout ==
    \/ \E rt \in RandomType : \E rx, rz \in RandomCoordinate :
          addModule(rt, rx, rz)
    \/ deleteModule
    \/ \E e \in PanelEdits : updateSelected(e[1], e[2])
    \/ \E i \in DOMAIN modules : \E pos \in GizmoPositions : onMouseUp(i, pos)
    \/ \E i \in DOMAIN modules : onClick(i)
    \/ saveLayout
    \/ loadLayout
    \/ exportLayout
    \/ \E file \in Files : importLayout(file)
    \/ importNothing
    \/ \E i \in DOMAIN readers : onload(i)

Next ==
    \/ Tick
    \/ Layout

\* The events of the sidebar's estimator and mode select, over a registry
\* that Add, click and Delete change.
Sidebar ==
    \/ Tick
    \/ \E rt \in RandomType : \E rx, rz \in RandomCoordinate :
          addModule(rt, rx, rz)
    \/ deleteModule
    \/ \E i \in DOMAIN modules : onClick(i)
    \/ \E t \in CrewTexts : setCrew(t)
    \/ \E mode \in {"translate", "rotate", "scale"} : setControlsMode(mode)

Spec == Init /\ [][Next]_vars

SpecSidebar == Init /\ [][Sidebar]_vars

----------------------------------------------------------------------------
(* The claims *)

Range(f) == {f[i] : i \in DOMAIN f}

Warning == "Select a module to delete!"

\* C1: after any sequence of Add operations, however closely spaced in
\* time, no two records of the registry have the same id.
C1_UniqueIds ==
    \A i, j \in DOMAIN modules : i # j => modules[i].id # modules[j].id

\* C2: Selection is none or the id of a record that is in the registry,
\* also after Load or Import replaced the registry.
C2_SelectionInRegistry ==
    selected = null \/ \E i \in DOMAIN modules : modules[i].id = selected

\* C3: with a Selection, Delete removes exactly the selected record and
\* clears Selection: one record less, the others unchanged and in order.
C3_DeleteRemovesOne ==
    [][(deleteModule /\ selected # null) =>
          /\ selected' = null
          /\ Len(modules') = Len(modules) - 1
          /\ \E i \in DOMAIN modules :
                /\ modules[i].id = selected
                /\ modules' = RemoveAt(modules, i)]_vars

\* C4: Delete with no Selection changes neither the registry nor Selection
\* and shows the warning once; the warning is shown only when no module is
\* selected.
C4_WarningIffNoSelection ==
    [][deleteModule =>
          /\ selected = null =>
                (UNCHANGED <<modules, selected>> /\ alerts' = <<Warning>>)
          /\ Warning \in Range(alerts') => selected = null]_vars

\* C5: with a Selection, Update field changes only the named field of the
\* one selected record; the other fields, the other records, their number
\* and order, and Selection are unchanged.
C5_UpdateFrame ==
    [][\A e \in PanelEdits :
          (updateSelected(e[1], e[2]) /\ selected # null) =>
             /\ selected' = selected
             /\ Len(modules') = Len(modules)
             /\ \E i \in DOMAIN modules :
                   /\ modules[i].id = selected
                   /\ \A j \in DOMAIN modules \ {i} : modules'[j] = modules[j]
                   /\ \A g \in DOMAIN modules[i] \ {e[1]} :
                         modules'[i][g] = modules[i][g]]_vars

\* C6: every record of the registry has one of the six types.
C6_TypesInEnumeration ==
    \A i \in DOMAIN modules : modules[i].type \in Range(types)

\* C7: Load with the slot present leaves the registry equal to the registry
\* as it was at the most recent Save; Load with the slot absent changes
\* nothing.
C7_LoadRestoresSaved ==
    [][loadLayout =>
          IF localStorage # null THEN modules' = savedModules
          ELSE UNCHANGED <<modules, selected>>]_vars

\* C8: the read callback of a file that does not decode leaves the registry
\* and Selection as they were, and shows the invalid-file error and nothing
\* else.
C8_BadImportChangesNothing ==
    [][\A i \in DOMAIN readers :
          (onload(i) /\ Throws(readers[i].text)) =>
             /\ UNCHANGED <<modules, selected>>
             /\ alerts' = <<"Invalid JSON file!">>]_vars

\* A failed import has just left a registry with a selected record alone.
C8_Witness ==
    /\ alerts = <<"Invalid JSON file!">>
    /\ modules # <<>>
    /\ selected # null

\* A displayed text of digits, a point and two digits, and the number of
\* hundredths it denotes.
IsTwoDecimalText(s) ==
    /\ Len(s) >= 4
    /\ s[Len(s) - 2] = "."
    /\ \A i \in DOMAIN s \ {Len(s) - 2} : s[i] \in Range(DigitChars)
    /\ Len(s) > 4 => s[1] # "0"

ReadHundredths(s) ==
    FromDigits(DigitsOfText(SubSeq(s, 1, Len(s) - 3)
                            \o SubSeq(s, Len(s) - 1, Len(s))))

Shows(s, hundredths) == IsTwoDecimalText(s) /\ ReadHundredths(s) = hundredths

\* For the crew count c held in the state the estimator shows 84c, 250c and
\* 62c hundredths.
EstimatorShown ==
    /\ Shows(dailyOxygen, Times(Natural(crew), 84))
    /\ Shows(dailyWater, Times(Natural(crew), 250))
    /\ Shows(dailyFood, Times(Natural(crew), 62))
    /\ crew = Num(4) => /\ dailyOxygen = <<"3", ".", "3", "6">>
                        /\ dailyWater = <<"1", "0", ".", "0", "0">>
                        /\ dailyFood = <<"2", ".", "4", "8">>
    /\ crew = Num(0) => /\ dailyOxygen = <<"0", ".", "0", "0">>
                        /\ dailyWater = <<"0", ".", "0", "0">>
                        /\ dailyFood = <<"0", ".", "0", "0">>

\* C9 as stated: for every non-negative integer crew count c the estimator
\* shows 84c, 250c and 62c hundredths as two-decimal texts ("3.36",
\* "10.00", "2.48" for 4 and "0.00" for 0), and a change of the crew count
\* changes neither the registry nor Selection.
C9_EstimatorEveryCrew ==
    /\ []EstimatorShown
    /\ [][crew' # crew => UNCHANGED <<modules, selected>>]_vars

\* 45237049828508, the largest crew count up to which every product,
\* rounded to a double, is within half a hundredth of the exact one.
CrewBound == <<45, 2370, 4982, 8508>>

\* C9: for every non-negative integer crew count c up to 45237049828508
\* the estimator shows 84c, 250c and 62c hundredths as two-decimal texts
\* ("3.36", "10.00", "2.48" for 4 and "0.00" for 0), and a change of the
\* crew count, of any size, changes neither the registry nor Selection.
C9_Estimator ==
    /\ [](~Less(CrewBound, Natural(crew)) => EstimatorShown)
    /\ [][crew' # crew => UNCHANGED <<modules, selected>>]_vars

\* The largest crew count of the claim was typed in while a module was
\* selected.
C9_Witness ==
    /\ Natural(crew) = CrewBound
    /\ dailyOxygen = <<"3", "7", "9", "9", "9", "1", "2", "1", "8", "5", "5",
                       "9", "4", "6", ".", "7", "2">>
    /\ modules # <<>>
    /\ selected # null

\* C10: once the read callback of an exported file has run, the registry
\* equals the registry as it was at Export.
C10_ImportRestoresExported ==
    [][\A i \in DOMAIN readers :
          (onload(i) /\ readers[i].exported) =>
             modules' = readers[i].origin]_vars

----------------------------------------------------------------------------
(* What holds of the code where the claims above fail *)

FiniteRegistry(ms) ==
    \A i \in DOMAIN ms :
        /\ IsFinite(ms[i].id)
        /\ IsFinite(ms[i].size)
        /\ \A h \in DOMAIN ms[i].position : IsFinite(ms[i].position[h])

\* Exactly one record has the selected id, and the handlers see it.
OneSelected ==
    /\ ~Falsy(selected)
    /\ Cardinality({i \in DOMAIN modules : modules[i].id = selected}) = 1

\* Load restores a saved registry whose numbers are all finite.
LoadRestoresFiniteSaved ==
    [][(loadLayout /\ localStorage # null /\ FiniteRegistry(savedModules)) =>
          modules' = savedModules]_vars

\* The read callback restores an exported registry whose numbers are all
\* finite, whatever ran since the file was picked.
ImportRestoresFiniteExported ==
    [][\A i \in DOMAIN readers :
          (onload(i) /\ readers[i].exported
                     /\ FiniteRegistry(readers[i].origin)) =>
             modules' = readers[i].origin]_vars

\* Delete removes exactly the one record that has the selected id.
DeleteRemovesTheOneSelected ==
    [][(deleteModule /\ OneSelected) =>
          /\ selected' = null
          /\ \E i \in DOMAIN modules :
                /\ modules[i].id = selected
                /\ modules' = RemoveAt(modules, i)]_vars

\* Update field sets the named field of the one record that has the
\* selected id and changes nothing else.
UpdateSetsTheOneSelected ==
    [][\A e \in PanelEdits :
          (updateSelected(e[1], e[2]) /\ OneSelected) =>
             /\ selected' = selected
             /\ \E i \in DOMAIN modules :
                   /\ modules[i].id = selected
                   /\ modules' = [modules EXCEPT ![i][e[1]] = e[2]]]_vars

\* The warning of Delete is shown exactly when the selection is falsy.
WarningIffFalsySelection ==
    [][deleteModule => (alerts' = <<Warning>> <=> Falsy(selected))]_vars

============================================================================
